---- MODULE Spec2Model ----
(***************************************************************************)
(* Model of the real-time render-progress subsystem of StarStitch's web    *)
(* client:                                                                 *)
(*   - useWebSocket (hooks/useWebSocket.ts): one WebSocket per tracked job *)
(*     with a bounded auto-reconnect policy;                               *)
(*   - useRender (hooks/useRender.ts): folds the ProgressEvents of         *)
(*     useWebSocket into state / progress / error;                         *)
(*   - useRenderWebSocket (hooks/useRenderWebSocket.ts): the variant       *)
(*     without auto-reconnect, with a heartbeat interval.                  *)
(*                                                                         *)
(* Every handler runs to completion on the event loop, so each handler is  *)
(* one atomic action.  Handlers are written as functions on a record of    *)
(* the hook's state so that a browser task that runs two handlers (error   *)
(* then close) composes them in order.  The effect of useWebSocket runs    *)
(* when jobId changes; useRender passes an inline onEvent, so connect also *)
(* changes identity on every render and the effect runs again after each   *)
(* render while a job is tracked: Rerender, part of SpecRender.  The       *)
(* browser keeps a WebSocket                                               *)
(* as long as the hook or a pending callback can still reach it: a closed  *)
(* socket that nothing refers to is dropped and its slot is reused.        *)
(***************************************************************************)
EXTENDS Integers, Sequences, FiniteSets, TLC

\* ----- bounds of the model ------------------------------------------------
MaxJobs == 2
MaxSockets == 3
MaxDelivered == 1
MaxFolded == 3
\* the starts, transports and frames of one behaviour, taken together
MaxOps == 5
\* the cancel requests of one behaviour
MaxCancels == 2
\* the option maxReconnectAttempts of useWebSocket (N of the reconnection policy)
maxReconnectAttempts == 2

\* the option autoReconnect of useWebSocket (default)
autoReconnect == TRUE

Jobs == 1..MaxJobs
NoJob == 0
NoSocket == 0
NoVal == -1
NoText == ""

VARIABLES
  \* useRender
  state, jobId, error, progress, pendingStart, nextJob,
  \* useWebSocket
  status, lastEvent, events, wsRef, reconnectAttemptsRef, reconnectTimeoutRef,
  \* the browser: the WebSockets still reachable, the pending timeouts, the
  \* number of frames delivered and of WebSockets created so far, the last
  \* frame handed to an onmessage handler
  sock, timers, delivered, created, lastFrame,
  \* useRenderWebSocket, and the browser's active intervals
  connectionState, renderState, rwsRef, heartbeatIntervalRef, currentUrlRef,
  intervals,
  \* the cancel requests made so far (useRender.cancelRender,
  \* App.handleCancelRender)
  cancels,
  \* App
  currentJobId, renderProgress

rvars == <<state, jobId, error, progress, pendingStart, nextJob>>
wvars == <<status, lastEvent, events, wsRef, reconnectAttemptsRef, reconnectTimeoutRef>>
bvars == <<sock, timers, delivered, created, lastFrame>>
uvars == <<connectionState, renderState, rwsRef, heartbeatIntervalRef,
           currentUrlRef, intervals>>
cvars == <<cancels>>
avars == <<currentJobId, renderProgress>>
vars == <<rvars, wvars, bvars, uvars, cvars, avars>>

\* what the environment has done so far: startRender calls, WebSockets
\* created, frames delivered, cancel requests
Ops == (nextJob - 1) + created + delivered + Len(cancels)

\* ----- ProgressEvent and wire frames ---------------------------------------
Event(t, step, pct, msg) ==
  [type |-> t, current_step |-> step, total_steps |-> NoVal,
   progress_percent |-> pct, subject |-> NoText, message |-> msg,
   data_error |-> NoText, data_elapsed |-> NoVal]

NoEvent == Event("none", NoVal, NoVal, NoText)

\* a raw frame: text that either parses to an object or does not; an object
\* without a type field has type NoText
Frame(e) == [json |-> TRUE, obj |-> e]
BadFrame == [json |-> FALSE, obj |-> NoEvent]

\* the frames the server sends in the connection specification
Frames ==
  { Frame(Event("job_started", NoVal, NoVal, "started")),
    Frame(Event("progress", 1, 33, "step 1")),
    Frame(Event("job_completed", NoVal, NoVal, "done")),
    BadFrame }

\* the frames the server sends in the specification of the fold of useRender
FoldFrames ==
  { Frame(Event("job_started", NoVal, NoVal, "started")),
    Frame(Event("progress", 1, 33, "step 1")),
    Frame(Event("step_progress", 2, 10, NoText)),
    Frame(Event("progress", 3, 100, "step 3")),
    Frame(Event("job_completed", NoVal, NoVal, "done")),
    Frame([Event("job_failed", NoVal, NoVal, "failed") EXCEPT !.data_error = "boom"]),
    Frame(Event("job_cancelled", NoVal, NoVal, NoText)),
    Frame(Event("log", NoVal, 10, "hello")),
    Frame(Event(NoText, 2, 50, "untyped")),
    Frame(Event("job_completed", 3, 90, "done")),
    Frame(Event("job_failed", NoVal, NoVal, "failed")),
    BadFrame }

\* a ?? b   and   a || b (for strings)
Nullish(a, b) == IF a = NoVal THEN b ELSE a
NullishText(a, b) == IF a = NoText THEN b ELSE a
OrText(a, b) == IF a = NoText THEN b ELSE a

\* ----- useRender -------------------------------------------------------------
InitProgress ==
  [status |-> "idle", current_step |-> 0, total_steps |-> 0,
   progress_percent |-> 0, current_subject |-> NoText, message |-> NoText,
   elapsed_time |-> 0]

StartingProgress ==
  [InitProgress EXCEPT !.status = "preparing", !.message = "Starting render..."]

\* the progress built from the response of rendersApi.start
ResponseProgress ==
  [InitProgress EXCEPT !.status = "preparing", !.message = "queued"]

\* the record of useRender's state the onEvent callback writes
R == [state |-> state, error |-> error, progress |-> progress]

\* onEvent whose job_completed case keeps the percentage of the event
onEventKeepsPercent(r, e) ==
  LET p1 == [r.progress EXCEPT
               !.current_step = Nullish(e.current_step, @),
               !.total_steps = Nullish(e.total_steps, @),
               !.progress_percent = Nullish(e.progress_percent, @),
               !.current_subject = NullishText(e.subject, @),
               !.message = OrText(e.message, @)]
      r1 == [r EXCEPT !.progress = p1]
  IN CASE e.type = "job_started" ->
            [r1 EXCEPT !.state = "rendering", !.progress.status = "rendering"]
       [] e.type = "job_completed" ->
            [r1 EXCEPT !.state = "complete", !.progress.status = "complete",
                       !.progress.elapsed_time = Nullish(e.data_elapsed, @)]
       [] e.type = "job_failed" ->
            [r1 EXCEPT !.state = "error",
                       !.error = NullishText(e.data_error, e.message),
                       !.progress.status = "error"]
       [] e.type = "job_cancelled" ->
            [r1 EXCEPT !.state = "cancelled", !.progress.status = "idle"]
       [] e.type \in {"progress", "step_progress"} ->
            [r1 EXCEPT !.progress.status = "rendering"]
       [] OTHER -> r1

onEvent(r, e) ==
  LET p1 == [r.progress EXCEPT
               !.current_step = Nullish(e.current_step, @),
               !.total_steps = Nullish(e.total_steps, @),
               !.progress_percent = Nullish(e.progress_percent, @),
               !.current_subject = NullishText(e.subject, @),
               !.message = OrText(e.message, @)]
      r1 == [r EXCEPT !.progress = p1]
  IN CASE e.type = "job_started" ->
            [r1 EXCEPT !.state = "rendering", !.progress.status = "rendering"]
       [] e.type = "job_completed" ->
            [r1 EXCEPT !.state = "complete", !.progress.status = "complete",
                       !.progress.progress_percent = 100,
                       !.progress.elapsed_time = Nullish(e.data_elapsed, @)]
       [] e.type = "job_failed" ->
            [r1 EXCEPT !.state = "error",
                       !.error = NullishText(e.data_error, e.message),
                       !.progress.status = "error"]
       [] e.type = "job_cancelled" ->
            [r1 EXCEPT !.state = "cancelled", !.progress.status = "idle"]
       [] e.type \in {"progress", "step_progress"} ->
            [r1 EXCEPT !.progress.status = "rendering"]
       [] OTHER -> r1

\* ----- the browser's WebSocket -----------------------------------------------
\* sock is a pool of MaxSockets slots.  rs is the readyState, "FREE" for an
\* unused slot.  how: "none" (not closed), "abnormal" (the connection failed
\* or was lost), "clean" (closed by the server), "aborted" (close() before it
\* was open), "client" (close() while open)
Slots == 1..MaxSockets
FreeSocket == [job |-> NoJob, rs |-> "FREE", how |-> "none"]
NewSocket(j) == [job |-> j, rs |-> "CONNECTING", how |-> "none"]

\* a closed socket that no ref, timeout or interval refers to is unreachable
Collect(ss, refs) ==
  [s \in Slots |-> IF ss[s].rs = "CLOSED" /\ s \notin refs THEN FreeSocket ELSE ss[s]]

\* the slot of the next socket, NoSocket when the pool is exhausted
FreeSlot(ss) ==
  IF \E s \in Slots : ss[s].rs = "FREE"
  THEN CHOOSE s \in Slots : /\ ss[s].rs = "FREE"
                            /\ \A t \in Slots : ss[t].rs = "FREE" => s <= t
  ELSE NoSocket

\* WebSocket.close(): no effect on a closing or closed socket
close(ss, s) ==
  IF ss[s].rs = "CONNECTING" THEN [ss EXCEPT ![s].rs = "CLOSING", ![s].how = "aborted"]
  ELSE IF ss[s].rs = "OPEN" THEN [ss EXCEPT ![s].rs = "CLOSING", ![s].how = "client"]
  ELSE ss

\* ----- useWebSocket ----------------------------------------------------------
\* the state of the hook and of the browser that its handlers read and write
H == [status |-> status, lastEvent |-> lastEvent, events |-> events,
      wsRef |-> wsRef, attempts |-> reconnectAttemptsRef,
      timeoutRef |-> reconnectTimeoutRef, sock |-> sock, timers |-> timers,
      r |-> R, ok |-> TRUE, created |-> created]

\* the slots useWebSocket or one of its pending timeouts refers to
Refs(h) == {h.wsRef, h.timeoutRef} \cup h.timers

updateStatus(h, newStatus) == [h EXCEPT !.status = newStatus]

\* handleMessage without the try / catch around JSON.parse
handleMessageFoldsBad(h, raw) ==
  [h EXCEPT !.lastEvent = raw.obj,
            !.events = Append(@, raw.obj),
            !.r = onEvent(@, raw.obj)]

handleMessage(h, raw) ==
  IF raw.json
  THEN [h EXCEPT !.lastEvent = raw.obj,
                 !.events = Append(@, raw.obj),
                 !.r = onEvent(@, raw.obj)]
  ELSE h

\* connect that leaves the previous transport as it is
connectKeepsOld(h, j) ==
  IF j = NoJob THEN h
  ELSE IF h.wsRef # NoSocket /\ h.sock[h.wsRef].rs = "OPEN" THEN h
  ELSE LET h1 == updateStatus(h, "connecting")
           live == Collect(h.sock, {h.timeoutRef} \cup h.timers)
           ws == FreeSlot(live)
       IN IF ws = NoSocket \/ h.created >= MaxSockets \/ Ops >= MaxOps
          THEN [h1 EXCEPT !.ok = FALSE]
          ELSE [h1 EXCEPT !.sock = [live EXCEPT ![ws] = NewSocket(j)],
                          !.wsRef = ws, !.created = @ + 1]

\* connect as created by the render in which jobId = j
connect(h, j) ==
  IF j = NoJob THEN h
  ELSE IF h.wsRef # NoSocket /\ h.sock[h.wsRef].rs = "OPEN" THEN h
  ELSE LET ss == IF h.wsRef # NoSocket THEN close(h.sock, h.wsRef) ELSE h.sock
           h1 == updateStatus([h EXCEPT !.sock = ss], "connecting")
           \* wsRef is about to be overwritten
           live == Collect(ss, {h.timeoutRef} \cup h.timers)
           ws == FreeSlot(live)
       IN IF ws = NoSocket \/ h.created >= MaxSockets \/ Ops >= MaxOps
          THEN [h1 EXCEPT !.ok = FALSE]
          ELSE [h1 EXCEPT !.sock = [live EXCEPT ![ws] = NewSocket(j)],
                          !.wsRef = ws, !.created = @ + 1]

\* onopen that keeps the attempt counter
onopenKeepsAttempts(h) == updateStatus(h, "connected")

onopen(h) ==
  [updateStatus(h, "connected") EXCEPT !.attempts = 0]

onerror(h) == updateStatus(h, "error")

\* onclose that also clears the progress of useRender
oncloseClearsProgress(h, s) ==
  LET h1 == [updateStatus(h, "disconnected") EXCEPT !.r.progress = InitProgress]
  IN IF autoReconnect /\ h1.attempts < maxReconnectAttempts
     THEN [h1 EXCEPT !.attempts = @ + 1,
                     !.timers = @ \cup {s},
                     !.timeoutRef = s]
     ELSE h1

\* onclose of socket s; the timeout it schedules is named after s
onclose(h, s) ==
  LET h1 == updateStatus(h, "disconnected")
  IN IF autoReconnect /\ h1.attempts < maxReconnectAttempts
     THEN [h1 EXCEPT !.attempts = @ + 1,
                     !.timers = @ \cup {s},
                     !.timeoutRef = s]
     ELSE h1

disconnect(h) ==
  LET h1 == IF h.timeoutRef # NoSocket
            THEN [h EXCEPT !.timers = @ \ {h.timeoutRef}, !.timeoutRef = NoSocket]
            ELSE h
      h2 == [h1 EXCEPT !.attempts = maxReconnectAttempts]
      h3 == IF h2.wsRef # NoSocket
            THEN [h2 EXCEPT !.sock = close(@, h2.wsRef), !.wsRef = NoSocket]
            ELSE h2
  IN updateStatus(h3, "disconnected")

\* the auto-connect effect when jobId changes from old to new: the cleanup of
\* the previous effect, then the effect
jobIdEffect(h, old, new) ==
  IF old = new THEN h
  ELSE LET h1 == disconnect(h)
       IN IF new # NoJob
          THEN connect([h1 EXCEPT !.events = <<>>, !.lastEvent = NoEvent,
                                  !.attempts = 0], new)
          ELSE h1

\* ----- useRenderWebSocket --------------------------------------------------------
\* WebSocketMessage: data holds the type-specific fields, absent ones as
\* NoText / NoProgress
NoProgress == [step |-> NoVal, total_steps |-> NoVal, progress_percent |-> NoVal]
NoData == [state |-> NoText, progress |-> NoProgress, output_path |-> NoText,
           variant_paths |-> NoText, message |-> NoText]
WireMessage(t, d) == [json |-> TRUE, obj |-> [type |-> t, data |-> d]]
BadWireFrame == [json |-> FALSE, obj |-> [type |-> NoText, data |-> NoData]]

WireFrames ==
  { WireMessage("state", [NoData EXCEPT !.state = "pending"]),
    WireMessage("progress", [NoData EXCEPT !.progress =
        [step |-> 1, total_steps |-> 3, progress_percent |-> 33]]),
    WireMessage("complete", [NoData EXCEPT !.output_path = "/x.mp4"]),
    WireMessage("complete", [NoData EXCEPT !.output_path = "/y.mp4",
                                           !.variant_paths = "{sq:/y_sq.mp4}"]),
    WireMessage("error", [NoData EXCEPT !.message = "boom"]),
    WireMessage("cancelled", NoData),
    WireMessage("heartbeat", NoData),
    WireMessage("log", NoData),
    BadWireFrame }

\* renderState: null, or a RenderProgressState whose absent fields are NoText /
\* NoProgress
RenderProgressState(st) ==
  [state |-> st, progress |-> NoProgress, outputPath |-> NoText,
   variantPaths |-> NoText, errorMessage |-> NoText]
NoRenderState == RenderProgressState("null")

\* the state of the hook and of the browser that its handlers read and write
G == [connectionState |-> connectionState, renderState |-> renderState,
      wsRef |-> rwsRef, heartbeat |-> heartbeatIntervalRef,
      currentUrl |-> currentUrlRef, sock |-> sock, intervals |-> intervals,
      ok |-> TRUE, created |-> created]

\* the slots useRenderWebSocket or one of its intervals refers to
RwsRefs(g) == {g.wsRef, g.heartbeat} \cup g.intervals

\* reconnectTimeoutRef of this hook is never assigned, so its branch is dead
clearTimers(g) ==
  IF g.heartbeat # NoSocket
  THEN [g EXCEPT !.intervals = @ \ {g.heartbeat}, !.heartbeat = NoSocket]
  ELSE g

rwsHandleMessage(g, raw) ==
  IF ~raw.json THEN g
  ELSE LET m == raw.obj
       IN CASE m.type \in {"state", "progress"} ->
                 [g EXCEPT !.renderState =
                    [RenderProgressState(OrText(m.data.state, "running"))
                       EXCEPT !.progress = m.data.progress]]
            [] m.type = "complete" ->
                 [g EXCEPT !.renderState =
                    [RenderProgressState("complete")
                       EXCEPT !.outputPath = m.data.output_path,
                              !.variantPaths = OrText(m.data.variant_paths, "{}")]]
            [] m.type = "error" ->
                 [g EXCEPT !.renderState =
                    [RenderProgressState("failed")
                       EXCEPT !.errorMessage = m.data.message]]
            [] m.type = "cancelled" ->
                 [g EXCEPT !.renderState = RenderProgressState("cancelled")]
            [] OTHER -> g

createConnection(g, wsUrl) ==
  LET ss == IF g.wsRef # NoSocket THEN close(g.sock, g.wsRef) ELSE g.sock
      g1 == clearTimers([g EXCEPT !.sock = ss])
      g2 == [g1 EXCEPT !.connectionState = "connecting",
                       !.renderState = NoRenderState,
                       !.currentUrl = wsUrl]
      \* wsRef is about to be overwritten
      live == Collect(ss, {g1.heartbeat} \cup g1.intervals)
      ws == FreeSlot(live)
  IN IF ws = NoSocket \/ g.created >= MaxSockets \/ Ops >= MaxOps
     THEN [g2 EXCEPT !.ok = FALSE]
     ELSE [g2 EXCEPT !.sock = [live EXCEPT ![ws] = NewSocket(wsUrl)],
                     !.wsRef = ws, !.created = @ + 1]

\* onopen of socket s; the heartbeat interval it starts is named after s
rwsOnopen(g, s) ==
  [g EXCEPT !.connectionState = "connected",
            !.intervals = @ \cup {s},
            !.heartbeat = s]

rwsOnerror(g) == [g EXCEPT !.connectionState = "error"]

\* onclose that reports every closure as 'disconnected'
rwsOncloseForgetsCause(g, wasClean) ==
  [clearTimers(g) EXCEPT !.connectionState = "disconnected", !.currentUrl = NoJob]

rwsOnclose(g, wasClean) ==
  LET g1 == clearTimers(g)
  IN IF wasClean
     THEN [g1 EXCEPT !.connectionState = "disconnected", !.currentUrl = NoJob]
     ELSE [g1 EXCEPT !.connectionState = "error"]

rwsDisconnect(g) ==
  LET g1 == [clearTimers(g) EXCEPT !.currentUrl = NoJob]
      g2 == IF g1.wsRef # NoSocket
            THEN [g1 EXCEPT !.sock = close(@, g1.wsRef), !.wsRef = NoSocket]
            ELSE g1
  IN [g2 EXCEPT !.connectionState = "disconnected"]

RwsCommit(g) ==
  /\ g.ok
  /\ connectionState' = g.connectionState
  /\ renderState' = g.renderState
  /\ rwsRef' = g.wsRef
  /\ heartbeatIntervalRef' = g.heartbeat
  /\ currentUrlRef' = g.currentUrl
  /\ sock' = Collect(g.sock, RwsRefs(g))
  /\ created' = g.created
  /\ intervals' = g.intervals

\* ----- writing a handler's result back ------------------------------------
Commit(h) ==
  /\ h.ok
  /\ status' = h.status
  /\ lastEvent' = h.lastEvent
  /\ events' = h.events
  /\ wsRef' = h.wsRef
  /\ reconnectAttemptsRef' = h.attempts
  /\ reconnectTimeoutRef' = h.timeoutRef
  /\ sock' = Collect(h.sock, Refs(h))
  /\ created' = h.created
  /\ timers' = h.timers
  /\ state' = h.r.state
  /\ error' = h.r.error
  /\ progress' = h.r.progress

Init ==
  /\ state = "idle"
  /\ jobId = NoJob
  /\ error = NoText
  /\ progress = InitProgress
  /\ pendingStart = {}
  /\ nextJob = 1
  /\ status = "disconnected"
  /\ lastEvent = NoEvent
  /\ events = <<>>
  /\ wsRef = NoSocket
  /\ reconnectAttemptsRef = 0
  /\ reconnectTimeoutRef = NoSocket
  /\ sock = [s \in Slots |-> FreeSocket]
  /\ created = 0
  /\ timers = {}
  /\ delivered = 0
  /\ lastFrame = BadFrame
  /\ connectionState = "disconnected"
  /\ renderState = NoRenderState
  /\ rwsRef = NoSocket
  /\ heartbeatIntervalRef = NoSocket
  /\ currentUrlRef = NoJob
  /\ intervals = {}
  /\ cancels = <<>>
  /\ currentJobId = NoJob
  /\ renderProgress = InitProgress

\* ----- actions of useRender ---------------------------------------------------
\* startRender up to the await: the request for a job is in flight
StartRender ==
  /\ nextJob <= MaxJobs
  /\ Ops < MaxOps
  /\ nextJob' = nextJob + 1
  /\ pendingStart' = pendingStart \cup {nextJob}
  /\ state' = "starting"
  /\ error' = NoText
  /\ progress' = StartingProgress
  /\ UNCHANGED <<jobId, wvars, bvars, uvars, cvars, avars>>

\* rendersApi.start resolves with job j
StartResolved ==
  \E j \in pendingStart :
    LET h == jobIdEffect(H, jobId, j)
    IN /\ pendingStart' = pendingStart \ {j}
       /\ jobId' = j
       /\ Commit([h EXCEPT !.r.progress = ResponseProgress])
       /\ UNCHANGED <<nextJob, delivered, lastFrame, uvars, cvars, avars>>

\* rendersApi.start rejects
StartRejected ==
  \E j \in pendingStart :
    /\ pendingStart' = pendingStart \ {j}
    /\ state' = "error"
    /\ error' = "Failed to start render"
    /\ progress' = [progress EXCEPT !.status = "error"]
    /\ UNCHANGED <<jobId, nextJob, wvars, bvars, uvars, cvars, avars>>

Reset ==
  LET h == jobIdEffect(H, jobId, NoJob)
  IN /\ jobId' = NoJob
     /\ Commit([h EXCEPT !.r = [state |-> "idle", error |-> NoText,
                                progress |-> InitProgress]])
     /\ UNCHANGED <<pendingStart, nextJob, delivered, lastFrame, uvars, cvars, avars>>

\* send(): the frame is handed to the socket in wsRef when it is open
CanSend == wsRef # NoSocket /\ sock[wsRef].rs = "OPEN"

\* a cancel request: whether a cancel frame was sent on the socket, the state
\* the caller saw, the out-of-band request and the promise returned
CancelCall(sent, at) ==
  [sent |-> sent, atState |-> at, http |-> "pending", returned |-> "pending"]

\* cancelRender up to the await: wsCancelJob(), then rendersApi.cancel is in
\* flight
CancelRender ==
  /\ jobId # NoJob
  /\ Len(cancels) < MaxCancels
  /\ Ops < MaxOps
  /\ cancels' = Append(cancels, CancelCall(CanSend, state))
  /\ UNCHANGED <<rvars, wvars, bvars, uvars, avars>>

\* rendersApi.cancel resolves
CancelResolved ==
  \E i \in 1..Len(cancels) :
    /\ cancels[i].http = "pending"
    /\ cancels' = [cancels EXCEPT ![i].http = "ok", ![i].returned = "fulfilled"]
    /\ state' = "cancelled"
    /\ progress' = [progress EXCEPT !.status = "idle",
                                    !.message = "Render cancelled"]
    /\ UNCHANGED <<jobId, error, pendingStart, nextJob, wvars, bvars, uvars, avars>>

\* rendersApi.cancel rejects: the catch block logs and returns
CancelRejected ==
  \E i \in 1..Len(cancels) :
    /\ cancels[i].http = "pending"
    /\ cancels' = [cancels EXCEPT ![i].http = "failed", ![i].returned = "fulfilled"]
    /\ UNCHANGED <<rvars, wvars, bvars, uvars, avars>>

\* ----- actions of useWebSocket's caller ------------------------------------
Connect ==
  LET h == connect(H, jobId)
  IN /\ h # H
     /\ Commit(h)
     /\ UNCHANGED <<jobId, pendingStart, nextJob, delivered, lastFrame, uvars, cvars, avars>>

Disconnect ==
  /\ Commit(disconnect(H))
  /\ UNCHANGED <<jobId, pendingStart, nextJob, delivered, lastFrame, uvars, cvars, avars>>

\* ----- events of the browser ---------------------------------------------------
\* the connection of socket s is established
SocketOpen ==
  \E s \in Slots :
    /\ sock[s].rs = "CONNECTING"
    /\ Commit(onopen([H EXCEPT !.sock[s].rs = "OPEN"]))
    /\ UNCHANGED <<jobId, pendingStart, nextJob, delivered, lastFrame, uvars, cvars, avars>>

\* a frame arrives on socket s
SocketMessage ==
  \E s \in Slots, raw \in Frames :
    /\ sock[s].rs = "OPEN"
    /\ delivered < MaxDelivered
    /\ Ops < MaxOps
    /\ delivered' = delivered + 1
    /\ lastFrame' = raw
    /\ Commit(handleMessage(H, raw))
    /\ UNCHANGED <<jobId, pendingStart, nextJob, uvars, cvars, avars>>

\* a frame arrives on socket s (specification of the fold)
FoldMessage ==
  \E s \in Slots, raw \in FoldFrames :
    /\ sock[s].rs = "OPEN"
    /\ delivered < MaxFolded
    /\ Ops < MaxOps
    /\ delivered' = delivered + 1
    /\ lastFrame' = raw
    /\ Commit(handleMessage(H, raw))
    /\ UNCHANGED <<jobId, pendingStart, nextJob, uvars, cvars, avars>>

\* the connection of socket s fails or is lost: one task fires error, then close
SocketAbnormalClose ==
  \E s \in Slots :
    /\ sock[s].rs \in {"CONNECTING", "OPEN"}
    /\ LET h == [H EXCEPT !.sock[s].rs = "CLOSED", !.sock[s].how = "abnormal"]
       IN Commit(onclose(onerror(h), s))
    /\ UNCHANGED <<jobId, pendingStart, nextJob, delivered, lastFrame, uvars, cvars, avars>>

\* the server closes socket s with a closing handshake
SocketCleanClose ==
  \E s \in Slots :
    /\ sock[s].rs = "OPEN"
    /\ LET h == [H EXCEPT !.sock[s].rs = "CLOSED", !.sock[s].how = "clean"]
       IN Commit(onclose(h, s))
    /\ UNCHANGED <<jobId, pendingStart, nextJob, delivered, lastFrame, uvars, cvars, avars>>

\* a close() of the client completes: error and close for a socket that was
\* never open, close alone otherwise
SocketCloseDone ==
  \E s \in Slots :
    /\ sock[s].rs = "CLOSING"
    /\ LET h == [H EXCEPT !.sock[s].rs = "CLOSED"]
       IN Commit(onclose(IF sock[s].how = "aborted" THEN onerror(h) ELSE h, s))
    /\ UNCHANGED <<jobId, pendingStart, nextJob, delivered, lastFrame, uvars, cvars, avars>>

\* the reconnect timeout scheduled by the onclose of socket s fires
TimerFire ==
  \E s \in timers :
    LET h == connect([H EXCEPT !.timers = @ \ {s}], sock[s].job)
    IN /\ Commit(h)
       /\ UNCHANGED <<jobId, pendingStart, nextJob, delivered, lastFrame, uvars, cvars, avars>>

\* a render of useRender while a job is tracked: onEvent is a new function, so
\* handleMessage and connect are new and the auto-connect effect runs again,
\* cleanup first; its setEvents([]) schedules the next render
Rerender ==
  /\ jobId # NoJob
  /\ LET h1 == disconnect(H)
         h  == connect([h1 EXCEPT !.events = <<>>, !.lastEvent = NoEvent,
                                  !.attempts = 0], jobId)
     IN /\ Commit(h)
        /\ UNCHANGED <<jobId, pendingStart, nextJob, delivered, lastFrame, uvars, cvars, avars>>

Next ==
  \/ StartRender
  \/ StartResolved
  \/ Reset
  \/ Connect
  \/ Disconnect
  \/ SocketOpen
  \/ SocketMessage
  \/ SocketAbnormalClose
  \/ SocketCleanClose
  \/ SocketCloseDone
  \/ TimerFire

Spec == Init /\ [][Next]_vars

\* useRender over useWebSocket with the renders of the host component
NextRender ==
  \/ StartRender
  \/ StartResolved
  \/ Reset
  \/ Connect
  \/ Disconnect
  \/ SocketOpen
  \/ SocketMessage
  \/ SocketAbnormalClose
  \/ SocketCleanClose
  \/ SocketCloseDone
  \/ TimerFire
  \/ Rerender

SpecRender == Init /\ [][NextRender]_vars

\* the fold of useRender over a channel that stays up
NextFold ==
  \/ StartRender
  \/ StartResolved
  \/ StartRejected
  \/ Reset
  \/ SocketOpen
  \/ FoldMessage
  \/ CancelRender
  \/ CancelResolved
  \/ CancelRejected

SpecFold == Init /\ [][NextFold]_vars

\* ----- actions of useRenderWebSocket's caller and of its sockets -----------------
RwsConnect ==
  \E wsUrl \in Jobs :
    /\ RwsCommit(createConnection(G, wsUrl))
    /\ UNCHANGED <<rvars, wvars, timers, delivered, lastFrame, cvars, avars>>

RwsDisconnect ==
  /\ RwsCommit(rwsDisconnect(G))
  /\ UNCHANGED <<rvars, wvars, timers, delivered, lastFrame, cvars, avars>>

RwsSocketOpen ==
  \E s \in Slots :
    /\ sock[s].rs = "CONNECTING"
    /\ RwsCommit(rwsOnopen([G EXCEPT !.sock[s].rs = "OPEN"], s))
    /\ UNCHANGED <<rvars, wvars, timers, delivered, lastFrame, cvars, avars>>

RwsSocketMessage ==
  \E s \in Slots, raw \in WireFrames :
    /\ sock[s].rs = "OPEN"
    /\ delivered < MaxFolded
    /\ Ops < MaxOps
    /\ delivered' = delivered + 1
    /\ lastFrame' = raw
    /\ RwsCommit(rwsHandleMessage(G, raw))
    /\ UNCHANGED <<rvars, wvars, timers, cvars, avars>>

\* the connection fails or is lost: error, then close with wasClean = false
RwsSocketAbnormalClose ==
  \E s \in Slots :
    /\ sock[s].rs \in {"CONNECTING", "OPEN"}
    /\ LET g == [G EXCEPT !.sock[s].rs = "CLOSED", !.sock[s].how = "abnormal"]
       IN RwsCommit(rwsOnclose(rwsOnerror(g), FALSE))
    /\ UNCHANGED <<rvars, wvars, timers, delivered, lastFrame, cvars, avars>>

\* the server closes the socket with a closing handshake
RwsSocketCleanClose ==
  \E s \in Slots :
    /\ sock[s].rs = "OPEN"
    /\ LET g == [G EXCEPT !.sock[s].rs = "CLOSED", !.sock[s].how = "clean"]
       IN RwsCommit(rwsOnclose(g, TRUE))
    /\ UNCHANGED <<rvars, wvars, timers, delivered, lastFrame, cvars, avars>>

\* a close() of the client completes: error and an unclean close for a socket
\* that was never open, a clean close otherwise
RwsSocketCloseDone ==
  \E s \in Slots :
    /\ sock[s].rs = "CLOSING"
    /\ LET g == [G EXCEPT !.sock[s].rs = "CLOSED"]
       IN RwsCommit(IF sock[s].how = "aborted"
                    THEN rwsOnclose(rwsOnerror(g), FALSE)
                    ELSE rwsOnclose(g, TRUE))
    /\ UNCHANGED <<rvars, wvars, timers, delivered, lastFrame, cvars, avars>>

NextRws ==
  \/ RwsConnect
  \/ RwsDisconnect
  \/ RwsSocketOpen
  \/ RwsSocketMessage
  \/ RwsSocketAbnormalClose
  \/ RwsSocketCleanClose
  \/ RwsSocketCloseDone

SpecRws == Init /\ [][NextRws]_vars

\* ----- App (the variant built on useRenderWebSocket) ------------------------------
\* total_steps of a new render: config.sequence.length * 2 + 1, for a sequence
\* of one subject
ConfigSteps == 3

PreparingProgress ==
  [InitProgress EXCEPT !.status = "preparing", !.total_steps = ConfigSteps,
                       !.message = "Preparing workspace..."]

\* the onComplete and onError callbacks App passes to useRenderWebSocket
onCompleteApp(rp) ==
  [rp EXCEPT !.status = "complete", !.progress_percent = 100,
             !.message = "Your stitch is ready!"]
onErrorApp(rp, errorMsg) ==
  [rp EXCEPT !.status = "error", !.message = errorMsg]

\* the effect on renderState: fields the progress object lacks are undefined
progressEffect(rp, rs) ==
  IF rs.state # "null" /\ rs.progress # NoProgress
  THEN [status |-> CASE rs.state = "running" -> "rendering"
                     [] rs.state = "complete" -> "complete"
                     [] rs.state = "failed" -> "error"
                     [] rs.state = "cancelled" -> "cancelled"
                     [] OTHER -> "preparing",
        current_step |-> rs.progress.step,
        total_steps |-> rs.progress.total_steps,
        progress_percent |-> rs.progress.progress_percent,
        message |-> NoText, current_subject |-> NoText, elapsed_time |-> NoVal]
  ELSE rp

\* handleStartRender up to the await: api.startRender is in flight
AppStartRender ==
  /\ nextJob <= MaxJobs
  /\ Ops < MaxOps
  /\ nextJob' = nextJob + 1
  /\ pendingStart' = pendingStart \cup {nextJob}
  /\ UNCHANGED <<state, jobId, error, progress, wvars, bvars, uvars, cvars, avars>>

\* api.startRender resolves with job j, whose websocket_url is named after j
AppStartResolved ==
  \E j \in pendingStart :
    LET g == createConnection(G, j)
    IN /\ pendingStart' = pendingStart \ {j}
       /\ currentJobId' = j
       /\ renderProgress' = progressEffect(PreparingProgress, g.renderState)
       /\ RwsCommit(g)
       /\ UNCHANGED <<state, jobId, error, progress, nextJob, wvars, timers,
                      delivered, lastFrame, cvars>>

\* api.startRender rejects: a toast only
AppStartRejected ==
  \E j \in pendingStart :
    /\ pendingStart' = pendingStart \ {j}
    /\ UNCHANGED <<state, jobId, error, progress, nextJob, wvars, bvars, uvars,
                   cvars, avars>>

\* cancel(): the frame is handed to the socket in wsRef when it is open
RwsCanSend == rwsRef # NoSocket /\ sock[rwsRef].rs = "OPEN"

\* handleCancelRender up to the await: api.cancelRender is in flight
AppCancel ==
  /\ currentJobId # NoJob
  /\ Len(cancels) < MaxCancels
  /\ Ops < MaxOps
  /\ cancels' = Append(cancels, CancelCall(FALSE, renderProgress.status))
  /\ UNCHANGED <<rvars, wvars, bvars, uvars, avars>>

\* api.cancelRender resolves: cancelWs(), then the progress is marked cancelled
AppCancelResolved ==
  \E i \in 1..Len(cancels) :
    /\ cancels[i].http = "pending"
    /\ cancels' = [cancels EXCEPT ![i].http = "ok", ![i].sent = RwsCanSend,
                                  ![i].returned = "fulfilled"]
    /\ renderProgress' = [renderProgress EXCEPT !.status = "cancelled",
                                                !.message = "Render cancelled"]
    /\ UNCHANGED <<rvars, wvars, bvars, uvars, currentJobId>>

\* api.cancelRender rejects: the catch block logs and shows a toast
AppCancelRejected ==
  \E i \in 1..Len(cancels) :
    /\ cancels[i].http = "pending"
    /\ cancels' = [cancels EXCEPT ![i].http = "failed", ![i].returned = "fulfilled"]
    /\ UNCHANGED <<rvars, wvars, bvars, uvars, avars>>

\* a frame arrives on socket s: handleMessage, its callback, then the effect
\* on the new renderState
AppSocketMessage ==
  \E s \in Slots, raw \in WireFrames :
    /\ sock[s].rs = "OPEN"
    /\ delivered < MaxFolded
    /\ Ops < MaxOps
    /\ delivered' = delivered + 1
    /\ lastFrame' = raw
    /\ LET g == rwsHandleMessage(G, raw)
           rp == IF ~raw.json THEN renderProgress
                 ELSE IF raw.obj.type = "complete" THEN onCompleteApp(renderProgress)
                 ELSE IF raw.obj.type = "error"
                      THEN onErrorApp(renderProgress, raw.obj.data.message)
                 ELSE renderProgress
       IN /\ RwsCommit(g)
          /\ renderProgress' =
               IF raw.json /\ raw.obj.type \in {"state", "progress", "complete",
                                                "error", "cancelled"}
               THEN progressEffect(rp, g.renderState)
               ELSE rp
    /\ UNCHANGED <<rvars, wvars, timers, cvars, currentJobId>>

NextApp ==
  \/ AppStartRender
  \/ AppStartResolved
  \/ AppStartRejected
  \/ AppCancel
  \/ AppCancelResolved
  \/ AppCancelRejected
  \/ RwsSocketOpen
  \/ AppSocketMessage
  \/ RwsSocketAbnormalClose
  \/ RwsSocketCleanClose
  \/ RwsSocketCloseDone

SpecApp == Init /\ [][NextApp]_vars

\* ===== properties ================================================================
Terminal == {"complete", "error", "cancelled"}
TerminalTypes == {"job_completed", "job_failed", "job_cancelled"}

\* a frame was handed to the onmessage handler in this step
MessageStep == delivered' # delivered
\* socket s dispatched its close event in this step
CloseStep(s) ==
  /\ sock[s].rs \in {"CONNECTING", "OPEN", "CLOSING"}
  /\ sock'[s].rs \in {"CLOSED", "FREE"}
\* a transport was created in this step
Opened(s) == sock'[s].rs = "CONNECTING" /\ sock[s].rs # "CONNECTING"
OpensTransport == \E s \in Slots : Opened(s)

\* C1 (SpecFold): while state is 'rendering', folding an event never lowers
\* progress.progress_percent.
C1_PercentNeverDecreases ==
  [][(MessageStep /\ state = "rendering" /\ state' = "rendering")
       => progress'.progress_percent >= progress.progress_percent]_vars

\* C2 (SpecFold): once a terminal event has made state terminal, folding an
\* event of any type leaves state, current_step and progress_percent as they
\* were.
C2_TerminalIsFinal ==
  [][(MessageStep /\ state \in Terminal /\ lastEvent.type \in TerminalTypes)
       => /\ state' = state
          /\ progress'.current_step = progress.current_step
          /\ progress'.progress_percent = progress.progress_percent]_vars

\* C3 (SpecRws): once renderState is 'complete', no later message changes the
\* state or the outputs (outputPath, variantPaths) recorded by the first
\* 'complete' message.
C3_OutputsSetOnce ==
  [][(MessageStep /\ renderState.state = "complete")
       => /\ renderState'.state = "complete"
          /\ renderState'.outputPath = renderState.outputPath
          /\ renderState'.variantPaths = renderState.variantPaths]_vars

\* the first connection and maxReconnectAttempts reconnections for the tracked
\* job have all ended in an abnormal closure and nothing is pending
BudgetExhausted ==
  /\ reconnectAttemptsRef = maxReconnectAttempts
  /\ wsRef # NoSocket /\ sock[wsRef].rs = "CLOSED"
  \* the last timeout scheduled has fired and made the last attempt
  /\ reconnectTimeoutRef \notin {NoSocket, wsRef}
  /\ timers = {}
  /\ \A s \in Slots : \/ sock[s].rs = "FREE"
                        \/ /\ sock[s].rs = "CLOSED"
                           /\ sock[s].how = "abnormal"
                           /\ sock[s].job = jobId

\* C4 (Spec): when the first connection and all maxReconnectAttempts
\* reconnections ended in an abnormal closure, status has settled at 'error'.
C4_SettlesAtError == BudgetExhausted => status = "error"

C6_CleanCloseNoReconnect ==
  [][\A s \in Slots :
       (CloseStep(s) /\ sock'[s].how = "clean") => timers' \subseteq timers]_vars

\* C7 (Spec): once a terminal event has been folded and state is terminal, the
\* closure of a transport, clean or abnormal, schedules no reconnection.
C7_TerminalNoReconnect ==
  [][\A s \in Slots :
       (/\ CloseStep(s)
        /\ sock[s].how = "none"
        /\ state \in Terminal
        /\ lastEvent.type \in TerminalTypes) => timers' \subseteq timers]_vars

\* C8 (Spec): disconnect() leaves status 'disconnected' and no timeout in
\* reconnectTimeoutRef, and while the hook is disconnected (wsRef is null
\* since disconnect()) no transport is created except by connect() or by a
\* change of jobId.
C8_DisconnectIsFinal ==
  [][/\ Disconnect => (status' = "disconnected" /\ reconnectTimeoutRef' = NoSocket)
     /\ (wsRef = NoSocket /\ jobId' = jobId /\ ~Connect)
          => ~OpensTransport]_vars

\* C9 (Spec): every transport is opened to the channel of the tracked job, and
\* the close event of a transport of another job changes neither status, the
\* attempt counter, events nor progress.
C9_OldJobTornDown ==
  [][/\ \A s \in Slots : Opened(s) => sock'[s].job = jobId'
     /\ \A s \in Slots :
          (CloseStep(s) /\ jobId # NoJob /\ sock[s].job # jobId)
            => UNCHANGED <<status, reconnectAttemptsRef, events, progress>>]_vars

\* C10 (SpecRws): the close or error event of a socket that connect() has
\* replaced changes neither connectionState, the heartbeat interval nor the
\* current URL.
C10_ReplacedSocketIsInert ==
  [][\A s \in Slots :
       (CloseStep(s) /\ rwsRef # NoSocket /\ s # rwsRef)
         => UNCHANGED <<connectionState, heartbeatIntervalRef, currentUrlRef>>]_vars

\* C11 (Spec): connect() while the transport of the tracked job is connecting
\* or open closes no transport, creates none and leaves status as it was.
C11_ConnectIsNoOp ==
  [][(/\ Connect
      /\ wsRef # NoSocket
      /\ sock[wsRef].rs \in {"CONNECTING", "OPEN"}
      /\ sock[wsRef].job = jobId)
       => UNCHANGED <<sock, wsRef, status>>]_vars

\* the out-of-band request of cancel call i completed in this step
CancelDone(i) == cancels[i].http = "pending" /\ cancels'[i].http # "pending"

\* C12 (SpecFold): a cancelRender() invoked after a terminal event had made
\* state terminal changes neither state, progress nor error when its request
\* completes.
C12_CancelOnTerminalIsNoOp ==
  [][\A i \in 1..Len(cancels) :
       (/\ CancelDone(i)
        /\ cancels[i].atState \in Terminal
        /\ state = cancels[i].atState
        /\ lastEvent.type \in TerminalTypes)
         => UNCHANGED <<state, progress, error>>]_vars

\* C14 (SpecFold): when the out-of-band cancel request fails, the promise of
\* cancelRender rejects or the hook's error is set.
C14_CancelFailureSurfaced ==
  [][\A i \in 1..Len(cancels) :
       (CancelDone(i) /\ cancels'[i].http = "failed")
         => \/ cancels'[i].returned = "rejected"
            \/ error' # NoText]_vars

\* C15 (SpecFold): state becomes 'cancelled' only in a step that folds a
\* job_cancelled event.
C15_CancelledOnlyByEvent ==
  [][(state' = "cancelled" /\ state # "cancelled")
       => (MessageStep /\ lastEvent'.type = "job_cancelled")]_vars

\* C16 (SpecFold): a frame that is not valid JSON changes neither status,
\* events, lastEvent, state, progress nor error and closes no transport, and
\* a frame that is valid JSON is folded whatever was received before it.
C16_BadJsonDropped ==
  [][MessageStep =>
       IF lastFrame'.json
       THEN /\ lastEvent' = lastFrame'.obj
            /\ events' = Append(events, lastFrame'.obj)
       ELSE UNCHANGED <<status, events, lastEvent, state, progress, error,
                        sock, wsRef>>]_vars

\* an invalid frame was dropped and the frame after it was folded: of the two
\* frames of the tracked job one is in events, and it is the last one
C16_Witness ==
  /\ nextJob = 2 /\ jobId = 1
  /\ delivered = 2
  /\ Len(events) = 1
  /\ lastFrame.json /\ lastEvent = lastFrame.obj
  /\ CanSend /\ status = "connected"

\* the event types useRender.onEvent has a case for
KnownTypes == {"job_started", "progress", "step_progress", "job_completed",
               "job_failed", "job_cancelled"}

\* C17 (SpecFold): a JSON frame without a type field is not appended to
\* events, does not become lastEvent and changes neither state nor progress.
C17_UntypedFrameDropped ==
  [][(MessageStep /\ lastFrame'.json /\ lastFrame'.obj.type = NoText)
       => UNCHANGED <<events, lastEvent, state, progress>>]_vars

\* C18 (SpecFold): folding an event whose type is outside KnownTypes
\* (heartbeat, pong, an unknown tag) leaves state and every progress field
\* as they were.
C18_UnknownTypeChangesNothing ==
  [][(/\ MessageStep
      /\ lastFrame'.json
      /\ lastFrame'.obj.type \notin KnownTypes \cup {NoText})
       => UNCHANGED <<state, progress>>]_vars

\* C19 (Spec): the open, error and close events of a transport and the firing
\* of a reconnect timeout change neither state, progress nor error of
\* useRender.
C19_ConnectionLeavesRenderAlone ==
  [][(\/ SocketOpen
      \/ SocketAbnormalClose
      \/ SocketCleanClose
      \/ SocketCloseDone
      \/ TimerFire) => UNCHANGED <<state, progress, error>>]_vars

\* the reconnection budget is exhausted after a progress event was received,
\* and progress still holds what that event reported
C19_Witness ==
  /\ BudgetExhausted
  /\ status = "disconnected"
  /\ lastEvent.type = "progress"
  /\ progress.current_step = lastEvent.current_step
  /\ progress.progress_percent = lastEvent.progress_percent
  /\ progress.message = lastEvent.message

\* the status changes of the state machine
\* disconnected -> connecting -> connected -> (disconnected | error)
StatusMachine ==
  { <<"disconnected", "connecting">>, <<"connecting", "connected">>,
    <<"connected", "disconnected">>, <<"connected", "error">> }

\* C20 (Spec): every change of status is one of the changes of StatusMachine.
C20_StatusFollowsMachine ==
  [][status' # status => <<status, status'>> \in StatusMachine]_vars

\* C13 (SpecApp): when the out-of-band request of a cancel call completes,
\* successfully or not, while the socket is open, the cancel frame of that
\* call has been sent.
C13_CancelPathsIndependent ==
  [][\A i \in 1..Len(cancels) :
       (CancelDone(i) /\ RwsCanSend) => cancels'[i].sent]_vars

\* the event folded in this step has type t
Folds(t) == MessageStep /\ lastFrame'.json /\ lastFrame'.obj.type = t

\* C21 (SpecFold): folding job_started while state is not 'rendering' sets
\* state to 'rendering' and current_step and progress_percent to 0.
C21_JobStartedResets ==
  [][(Folds("job_started") /\ state # "rendering")
       => /\ state' = "rendering"
          /\ progress'.current_step = 0
          /\ progress'.progress_percent = 0]_vars

\* C22 (SpecFold): folding progress or step_progress while state is not
\* terminal leaves state 'rendering', in agreement with progress.status.
C22_ProgressMeansRendering ==
  [][((Folds("progress") \/ Folds("step_progress")) /\ state \notin Terminal)
       => /\ state' = "rendering"
          /\ progress'.status = "rendering"]_vars

C24_LaterStartSupersedes ==
  [][(jobId # NoJob /\ jobId' # NoJob /\ jobId' # jobId) => jobId' > jobId]_vars

\* C25: the events log of useWebSocket is the sequence of the parsed frames
\* received since the current jobId was set, in delivery order, nothing lost
\* and nothing twice, and lastEvent is its last element: while the tracked job
\* stays the same a step either appends the frame it parsed (which becomes
\* lastEvent) or leaves the log as it was, and tracking a new job empties it.
C25_EventsIsOrderedLog ==
  [][/\ (jobId' = jobId /\ MessageStep /\ lastFrame'.json)
          => /\ events' = Append(events, lastFrame'.obj)
             /\ lastEvent' = lastFrame'.obj
     /\ (jobId' = jobId /\ ~(MessageStep /\ lastFrame'.json))
          => /\ events' = events
             /\ lastEvent' = lastEvent
     /\ (jobId' # jobId /\ jobId' # NoJob)
          => /\ events' = <<>>
             /\ lastEvent' = NoEvent]_vars

\* C26: among the transports that useWebSocket created, at most one is
\* connecting or open, and it is the one wsRef holds: connect() and
\* disconnect() close the transport of wsRef before wsRef is written.
C26_OneLiveTransport ==
  \A s \in Slots : sock[s].rs \in {"CONNECTING", "OPEN"} => s = wsRef

\* C26: a replaced transport is still closing while its successor is already
\* connecting
C26_Witness ==
  /\ wsRef # NoSocket
  /\ sock[wsRef].rs = "CONNECTING"
  /\ \E s \in Slots : s # wsRef /\ sock[s].rs = "CLOSING"

\* C27: the heartbeat interval of useRenderWebSocket is active exactly while
\* the current socket (the one wsRef holds) is open: an interval is running,
\* and heartbeatIntervalRef holds it, if and only if that socket is open.
C27_HeartbeatWhileOpen ==
  LET isOpen == rwsRef # NoSocket /\ sock[rwsRef].rs = "OPEN"
  IN /\ isOpen => (heartbeatIntervalRef = rwsRef /\ intervals = {rwsRef})
     /\ ~isOpen => (heartbeatIntervalRef = NoSocket /\ intervals = {})

\* C28: a closure of the current socket of useRenderWebSocket is classified,
\* 'disconnected' after a clean close and 'error' otherwise, and never
\* retried: only connect() creates a transport.
C28_ClosureClassifiedNoRetry ==
  [][/\ (rwsRef # NoSocket /\ CloseStep(rwsRef))
          => connectionState' = IF sock'[rwsRef].how \in {"clean", "client"}
                                THEN "disconnected" ELSE "error"
     /\ (OpensTransport \/ created' # created) => RwsConnect]_vars

\* C28: the connection of the current socket was lost; the hook reports
\* 'error', keeps the socket in wsRef and no transport is connecting or open
C28_Witness ==
  /\ rwsRef # NoSocket
  /\ sock[rwsRef].rs = "CLOSED"
  /\ sock[rwsRef].how = "abnormal"
  /\ connectionState = "error"
  /\ \A s \in Slots : sock[s].rs \notin {"CONNECTING", "OPEN"}

\* C29: once reset() has run, and until startRender is called again, useRender
\* stays detached: state stays 'idle', jobId stays null and no channel is
\* opened, whatever request issued before the reset completes meanwhile.
\* (startRender sets state to 'starting' at once, so state 'idle' with no
\* tracked job means that no startRender was called since.)
C29_ResetDetaches ==
  [][(state = "idle" /\ jobId = NoJob /\ nextJob' = nextJob)
       => (state' = "idle" /\ jobId' = NoJob /\ ~OpensTransport)]_vars

\* C30: in the App, when a message of the channel takes renderState to a
\* terminal state ('complete', 'failed', 'cancelled'), renderProgress.status
\* is the corresponding terminal value ('complete', 'error', 'cancelled')
\* once the message has been handled.
C30_TerminalShownInProgress ==
  [][(MessageStep /\ lastFrame'.json /\ renderState' # renderState)
       => /\ renderState'.state = "complete" => renderProgress'.status = "complete"
          /\ renderState'.state = "failed" => renderProgress'.status = "error"
          /\ renderState'.state = "cancelled"
               => renderProgress'.status = "cancelled"]_vars

TypeOK ==
  /\ state \in {"idle", "starting", "rendering", "complete", "error", "cancelled"}
  /\ jobId \in Jobs \cup {NoJob}
  /\ status \in {"connecting", "connected", "disconnected", "error"}
  /\ wsRef \in Slots \cup {NoSocket}
  /\ reconnectAttemptsRef \in 0..maxReconnectAttempts
  /\ timers \subseteq Slots
====
